---- MODULE Spec2Model ----
(***************************************************************************)
(* A model of the alphamuddle repository: the GADDAG lexicon index         *)
(* (src/pygaddag.py: classes GADDAG and Node) and the muddle solver        *)
(* (src/solver.py: class Solver).                                          *)
(*                                                                         *)
(* Characters are one-character strings, words and racks are sequences of  *)
(* characters.  The graph is an arena: a sequence of nodes, node 1 being   *)
(* the root; a node's edge map keeps the insertion order of its keys, as a *)
(* Python dict does.  0 stands for None.                                   *)
(*                                                                         *)
(* Spec       : the index under add_word and the query families.           *)
(* SolverSpec : one Solver over an index built from a lexicon.             *)
(***************************************************************************)
EXTENDS Integers, Sequences, FiniteSets, TLC

VARIABLES
    nodes,        \* GADDAG._root and everything reachable from it (the arena)
    changed,      \* GADDAG._changed
    inserted,     \* history: the words add_word has added (returned True for)
    last,         \* history: the last call on the index and what it returned
    letters,      \* Solver.letters
    occurrences,  \* Solver.occurrences
    start_grid,   \* Solver.start_grid
    init_grid,    \* Solver.init_grid
    singles,      \* Solver.singles
    even,         \* Solver.even
    odd,          \* Solver.odd
    solutions,    \* Solver.solutions
    solution,     \* the working grid of traverse (one object shared by all frames)
    stack,        \* the frames of traverse, innermost last
    pc,           \* where the Solver's caller is
    problem,      \* history: the arguments of set_problem
    returned      \* history: the lists solve() has returned, in order

gvars == <<nodes, changed, inserted, last>>
svars == <<letters, occurrences, start_grid, init_grid, singles, even, odd,
           solutions, solution, stack, pc, problem, returned>>
vars == <<nodes, changed, inserted, last, letters, occurrences, start_grid,
          init_grid, singles, even, odd, solutions, solution, stack, pc, problem,
          returned>>

-----------------------------------------------------------------------------
(* Bounds of the model *)

MaxWordLen == 3
MaxWords == 2
MaxSubLen == 2
MaxRack == 2
MaxLeftOut == 1
MaxPrefilled == 2
MaxCorner == 2
MaxSolves == 2

(* Program constants *)

Size == 5

Alphabet == {"a", "b"}
Wild == " "
Split == "+"
Dash == "-"

-----------------------------------------------------------------------------
(* Sequences of characters *)

RECURSIVE Reverse(_)
Reverse(s) == IF s = <<>> THEN <<>> ELSE Append(Reverse(Tail(s)), Head(s))

RECURSIVE Flatten(_)
Flatten(rows) == IF rows = <<>> THEN <<>> ELSE Head(rows) \o Flatten(Tail(rows))

SeqsUpTo(S, lo, hi) == UNION {[1..n -> S] : n \in lo..hi}

IsIn(x, s) == \E i \in 1..Len(s) : s[i] = x

Count(x, s) == Cardinality({i \in 1..Len(s) : s[i] = x})

FirstIndex(x, s) == CHOOSE i \in 1..Len(s) : s[i] = x /\ \A j \in 1..(i - 1) : s[j] # x

\* list.remove(x) for an x the list holds
RemoveFirst(x, s) ==
    LET i == FirstIndex(x, s)
    IN  SubSeq(s, 1, i - 1) \o SubSeq(s, i + 1, Len(s))

Range(s) == {s[i] : i \in 1..Len(s)}

\* s is a sub-multiset of t
SubBag(s, t) == \A x \in Range(s) : Count(x, s) <= Count(x, t)

UpperOf == [c \in {"a", "b", "c", "d"} |->
              CASE c = "a" -> "A" [] c = "b" -> "B" [] c = "c" -> "C" [] c = "d" -> "D"]

\* str.lower() of one character
LowerChar(c) ==
    IF \E l \in DOMAIN UpperOf : UpperOf[l] = c
    THEN CHOOSE l \in DOMAIN UpperOf : UpperOf[l] = c
    ELSE c

Lower(s) == [i \in 1..Len(s) |-> LowerChar(s[i])]

IsAlpha(c) == LowerChar(c) \in DOMAIN UpperOf

-----------------------------------------------------------------------------
(* class Node *)

NoEdges == [x \in {} |-> 0]

NewNode(end) == [keys |-> <<>>, dst |-> NoEdges, end |-> end]

\* Node.__contains__
HasEdge(g, n, ch) == ch \in DOMAIN g[n].dst

\* Node.edges: the set of edge labels; the empty set stands for the None the
\* property returns when the node has no edge
EdgesOf(g, n) == DOMAIN g[n].dst

\* Node.__len__, which is also the truth value of a node
NodeLen(g, n) == Len(g[n].keys)

\* Node.follow: 0 is None
RECURSIVE Follow(_, _, _)
Follow(g, n, chars) ==
    IF chars = <<>> THEN n
    ELSE IF HasEdge(g, n, Head(chars))
         THEN Follow(g, g[n].dst[Head(chars)], Tail(chars))
         ELSE 0

\* a set_edge that leaves an edge that is already there where it leads
SetEdgeOnce(g, n, ch, d) ==
    IF ch \in DOMAIN g[n].dst
    THEN g
    ELSE [g EXCEPT ![n] = [keys |-> Append(@.keys, ch),
                           dst  |-> (ch :> d) @@ @.dst,
                           end  |-> @.end]]

\* Node.set_edge
SetEdge(g, n, ch, d) ==
    [g EXCEPT ![n] = [keys |-> IF ch \in DOMAIN @.dst THEN @.keys ELSE Append(@.keys, ch),
                      dst  |-> (ch :> d) @@ @.dst,
                      end  |-> @.end]]

\* Node.add_edge(char, dst): the edge is set only when there is none yet
AddEdgeTo(g, n, ch, d) ==
    IF HasEdge(g, n, ch) THEN g ELSE SetEdge(g, n, ch, d)

\* Node.add_edge(char, end=end): a fresh node unless the edge exists
AddEdge(g, n, ch, end) ==
    IF HasEdge(g, n, ch)
    THEN [g |-> g, node |-> g[n].dst[ch]]
    ELSE [g |-> SetEdge(Append(g, NewNode(end)), n, ch, Len(g) + 1),
          node |-> Len(g) + 1]

\* Node.add_path
RECURSIVE AddPath(_, _, _)
AddPath(g, n, chars) ==
    IF chars = <<>> THEN [g |-> g, node |-> n]
    ELSE LET r == AddEdge(g, n, Head(chars), FALSE)
         IN  AddPath(r.g, r.node, Tail(chars))

\* add_end that creates the end node but leaves an existing one unmarked
AddEndUnmarked(g, n, ch) ==
    IF HasEdge(g, n, ch) THEN g ELSE AddEdge(g, n, ch, TRUE).g

\* Node.add_end
AddEnd(g, n, ch) ==
    IF HasEdge(g, n, ch)
    THEN [g EXCEPT ![g[n].dst[ch]].end = TRUE]
    ELSE AddEdge(g, n, ch, TRUE).g

-----------------------------------------------------------------------------
(* class GADDAG: membership and insertion *)

Root == 1

EmptyGraph == <<NewNode(FALSE)>>

\* GADDAG._has
Has(g, word) ==
    LET n == Follow(g, Root, Reverse(word))
    IN  IF n = 0 THEN FALSE
        ELSE IF ~HasEdge(g, n, Split) THEN FALSE
        ELSE g[g[n].dst[Split]].end

\* GADDAG.__contains__
Contains(g, word) == Has(g, Lower(word))

\* the test that guards set_edge in _add_word: True when it raises
EdgeConflict(g, node, char, existing) ==
    /\ NodeLen(g, g[node].dst[char]) > 0
    /\ EdgesOf(g, g[node].dst[char]) # EdgesOf(g, existing)

\* the loop of _add_word over m = len(word)-3 .. 0 (m counts from 0, as there);
\* prev is the node the previous iteration ended on
RECURSIVE AddLoop(_, _, _, _)
AddLoop(g, word, m, prev) ==
    IF m < 0 THEN [g |-> g, raised |-> FALSE]
    ELSE LET p    == AddPath(g, Root, Reverse(SubSeq(word, 1, m + 1)))
             q    == AddEdge(p.g, p.node, Split, FALSE)
             char == word[m + 2]
         IN  IF HasEdge(q.g, q.node, char)
             THEN IF EdgeConflict(q.g, q.node, char, prev)
                  THEN [g |-> q.g, raised |-> TRUE]
                  ELSE AddLoop(SetEdge(q.g, q.node, char, prev), word, m - 1, q.node)
             ELSE AddLoop(AddEdgeTo(q.g, q.node, char, prev), word, m - 1, q.node)

\* _add_word after its test for a word that is already there: the paths
\* of word, whose items are the labels of the edges
AddPaths(g, word) ==
    LET n  == Len(word)
        p1 == AddPath(g, Root, Reverse(word))
        g1 == AddEnd(p1.g, p1.node, Split)
        p2 == AddPath(g1, Root, Reverse(SubSeq(word, 1, n - 1)))
        q2 == AddEdge(p2.g, p2.node, Split, FALSE)
        g2 == AddEnd(q2.g, q2.node, word[n])
        r  == AddLoop(g2, word, n - 3, q2.node)
    IN  [g |-> r.g, ret |-> IF r.raised THEN "raise" ELSE "True"]

\* an _add_word without the test for a word that is already there
AddWordAnyway(g, word) == AddPaths(g, word)

\* GADDAG._add_word: ret is "True", "False" or "raise" (AttributeError)
AddWordOp(g, word) ==
    IF Contains(g, word) THEN [g |-> g, ret |-> "False"]
    ELSE AddPaths(g, word)

\* ''.join(word) for a word that is a list of strings
RECURSIVE JoinStr(_)
JoinStr(word) == IF word = <<>> THEN "" ELSE Head(word) \o JoinStr(Tail(word))

\* GADDAG.add(content) with a list of words: the list goes to _add_word as
\* one word.  Its test joins the words into one string and looks that up;
\* the paths are made of the items of the list, one edge for each word
AddContent(g, content) ==
    IF Contains(g, Flatten(content)) THEN [g |-> g, ret |-> "False"]
    ELSE AddPaths(g, [k \in 1..Len(content) |-> JoinStr(content[k])])

-----------------------------------------------------------------------------
(* class GADDAG: the crawlers.  A generator is modelled by the sequence of *)
(* what it yields; acc carries that sequence and the found_words set the   *)
(* recursive calls share.                                                  *)

NoneYet == [out |-> <<>>, found |-> {}]

\* Strict(v, e) is e.  TLC suspends the arguments of an operator until they
\* are used; the test makes it evaluate v first, so that a loop over many
\* edges does not build one long chain of suspended calls.
Strict(v, e) == IF v = v THEN e ELSE e

\* a yield that forgets to look the word up in found_words
YieldAgain(acc, isEnd, word, item) ==
    IF isEnd
    THEN [out |-> Append(acc.out, item), found |-> acc.found \cup {word}]
    ELSE acc

\* "if node.is_end and ''.join(partial_word) not in found_words: add, yield":
\* word is the key (joining one-character strings loses nothing), item what
\* is yielded
Yield(acc, isEnd, word, item) ==
    IF isEnd /\ word \notin acc.found
    THEN [out |-> Append(acc.out, item), found |-> acc.found \cup {word}]
    ELSE acc

Prepend(ch, s) == <<ch>> \o s

\* get_newlist that hands back the list with nothing removed
GetNewListKept(char, lst, flag) == lst

\* GADDAG.get_newlist
GetNewList(char, lst, flag) ==
    IF ~flag \/ lst = <<>> THEN lst
    ELSE IF IsIn(char, lst) THEN RemoveFirst(char, lst)
    ELSE RemoveFirst(Wild, lst)

\* GADDAG._crawl
RECURSIVE Crawl(_, _, _, _, _), CrawlEdges(_, _, _, _, _, _)
Crawl(g, node, pw, acc, wrapped) ==
    LET here == Yield(acc, g[node].end, pw, pw)
    IN  CrawlEdges(g, node, 1, pw, here, wrapped)
CrawlEdges(g, node, i, pw, acc, wrapped) ==
    IF i > Len(g[node].keys) THEN acc
    ELSE LET char == g[node].keys[i]
             nxt  == g[node].dst[char]
             sub  == IF char = Split
                     THEN Crawl(g, nxt, pw, acc, TRUE)
                     ELSE Crawl(g, nxt,
                                IF wrapped THEN Append(pw, char) ELSE Prepend(char, pw),
                                acc, wrapped)
         IN  Strict(sub, CrawlEdges(g, node, i + 1, pw, sub, wrapped))

\* GADDAG._crawl_end (node # None)
RECURSIVE CrawlEnd(_, _, _, _), CrawlEndEdges(_, _, _, _, _)
CrawlEnd(g, node, pw, out) ==
    LET here == IF HasEdge(g, node, Split) /\ g[g[node].dst[Split]].end
                THEN Append(out, pw) ELSE out
    IN  CrawlEndEdges(g, node, 1, pw, here)
CrawlEndEdges(g, node, i, pw, out) ==
    IF i > Len(g[node].keys) THEN out
    ELSE LET char == g[node].keys[i]
             sub  == IF char # Split
                     THEN CrawlEnd(g, g[node].dst[char], Prepend(char, pw), out)
                     ELSE out
         IN  Strict(sub, CrawlEndEdges(g, node, i + 1, pw, sub))

\* GADDAG._crawl_lett: yields <<no, word>>
RECURSIVE CrawlLett(_, _, _, _, _, _, _), CrawlLettEdges(_, _, _, _, _, _, _, _)
CrawlLett(g, node, pw, lett, no, acc, wrapped) ==
    LET here == Yield(acc, g[node].end, pw, <<no, pw>>)
    IN  CrawlLettEdges(g, node, 1, pw, lett, no, here, wrapped)
CrawlLettEdges(g, node, i, pw, lett, no, acc, wrapped) ==
    IF i > Len(g[node].keys) THEN acc
    ELSE LET char == g[node].keys[i]
             nxt  == g[node].dst[char]
             sub  == IF char = Split
                     THEN CrawlLett(g, nxt, pw, lett, no, acc, TRUE)
                     ELSE IF lett # <<>> /\ (IsIn(char, lett) \/ IsIn(Wild, lett))
                     THEN IF wrapped
                          THEN CrawlLett(g, nxt, Append(pw, char),
                                         GetNewList(char, lett, lett # <<>>),
                                         no, acc, wrapped)
                          ELSE CrawlLett(g, nxt, Prepend(char, pw),
                                         GetNewList(char, lett, lett # <<>>),
                                         no + 1, acc, wrapped)
                     ELSE acc
         IN  Strict(sub, CrawlLettEdges(g, node, i + 1, pw, lett, no, sub, wrapped))

\* GADDAG._crawl_end_lett (node # None)
RECURSIVE CrawlEndLett(_, _, _, _, _), CrawlEndLettEdges(_, _, _, _, _, _)
CrawlEndLett(g, node, pw, lett, out) ==
    LET here == IF HasEdge(g, node, Split) /\ g[g[node].dst[Split]].end
                THEN Append(out, pw) ELSE out
    IN  CrawlEndLettEdges(g, node, 1, pw, lett, here)
CrawlEndLettEdges(g, node, i, pw, lett, out) ==
    IF i > Len(g[node].keys) THEN out
    ELSE LET char == g[node].keys[i]
             sub  == IF char # Split /\ lett # <<>> /\ IsIn(char, lett)
                     THEN CrawlEndLett(g, g[node].dst[char], Prepend(char, pw),
                                       GetNewList(char, lett, TRUE), out)
                     ELSE out
         IN  Strict(sub, CrawlEndLettEdges(g, node, i + 1, pw, lett, sub))

\* the tuple `conditions` of _crawl_lett_patt; a pattern is a function from
\* positions to letters, the empty function standing for None and for {}
Cond0(char, lett) == lett = <<>> \/ IsIn(char, lett) \/ IsIn(Wild, lett)
Cond1(patt, pos) == pos \in DOMAIN patt
Cond2(char, patt, pos) == pos \in DOMAIN patt /\ patt[pos] = char

\* GADDAG._crawl_lett_patt: yields <<no, word>>
RECURSIVE CrawlLettPatt(_, _, _, _, _, _, _, _, _),
          CrawlLettPattEdges(_, _, _, _, _, _, _, _, _, _)
CrawlLettPatt(g, node, pw, lett, patt, no, pos, acc, wrapped) ==
    LET here == Yield(acc, g[node].end, pw, <<no, pw>>)
    IN  CrawlLettPattEdges(g, node, 1, pw, lett, patt, no, pos, here, wrapped)
CrawlLettPattEdges(g, node, i, pw, lett, patt, no, pos, acc, wrapped) ==
    IF i > Len(g[node].keys) THEN acc
    ELSE LET char == g[node].keys[i]
             nxt  == g[node].dst[char]
             c0   == Cond0(char, lett)
             c1   == Cond1(patt, pos)
             c2   == Cond2(char, patt, pos)
             sub  == IF char = Split
                     THEN CrawlLettPatt(g, nxt, pw, lett, patt, no, pos, acc, TRUE)
                     ELSE IF wrapped /\ (c2 \/ (~c1 /\ c0))
                     THEN CrawlLettPatt(g, nxt, Append(pw, char),
                                        GetNewList(char, lett, lett # <<>> /\ ~c2),
                                        patt, no, pos + 1, acc, wrapped)
                     ELSE IF ~wrapped /\ c0
                     THEN CrawlLettPatt(g, nxt, Prepend(char, pw),
                                        GetNewList(char, lett, lett # <<>>),
                                        patt, no + 1, pos, acc, wrapped)
                     ELSE acc
         IN  Strict(sub, CrawlLettPattEdges(g, node, i + 1, pw, lett, patt, no, pos, sub, wrapped))

\* check_pattern without its length test
CheckPatternWordAnyLen(pw, pattern) ==
    \A i \in 1..Len(pattern) : i > Len(pw) \/ pattern[i] = Dash \/ pw[i] = pattern[i]

\* GADDAG.check_pattern
CheckPatternWord(pw, pattern) ==
    /\ Len(pw) = Len(pattern)
    /\ \A i \in 1..Len(pattern) : pattern[i] = Dash \/ pw[i] = pattern[i]

\* GADDAG._crawl_find_lett_patt
RECURSIVE CrawlFind(_, _, _, _, _, _, _), CrawlFindEdges(_, _, _, _, _, _, _, _)
CrawlFind(g, node, pw, lett, pattern, acc, wrapped) ==
    LET here == Yield(acc, g[node].end /\ CheckPatternWord(pw, pattern), pw, pw)
    IN  CrawlFindEdges(g, node, 1, pw, lett, pattern, here, wrapped)
CrawlFindEdges(g, node, i, pw, lett, pattern, acc, wrapped) ==
    IF i > Len(g[node].keys) THEN acc
    ELSE LET char == g[node].keys[i]
             nxt  == g[node].dst[char]
             sub  == IF char = Split
                     THEN CrawlFind(g, nxt, pw, lett, pattern, acc, TRUE)
                     ELSE IF IsIn(char, lett) /\ Len(pw) < Len(pattern)
                     THEN CrawlFind(g, nxt,
                                    IF wrapped THEN Append(pw, char) ELSE Prepend(char, pw),
                                    GetNewList(char, lett, lett # <<>>),
                                    pattern, acc, wrapped)
                     ELSE acc
         IN  Strict(sub, CrawlFindEdges(g, node, i + 1, pw, lett, pattern, sub, wrapped))

-----------------------------------------------------------------------------
(* class GADDAG: the queries.  A result is [out, raised]: the sequence the  *)
(* caller gets by consuming what the query returned, and whether consuming *)
(* it raised.                                                              *)

Result(seq) == [out |-> seq, raised |-> FALSE]
Raised == [out |-> <<>>, raised |-> TRUE]

\* GADDAG.contains: the generator is only created inside the try, so a start
\* node of None raises when the caller consumes it
ContainsSub(g, sub) ==
    LET start == Follow(g, Root, Reverse(sub))
    IN  IF start = 0 THEN Raised
        ELSE Result(Crawl(g, start, sub, NoneYet, FALSE).out)

\* GADDAG.__len__ with __iter__: the words are counted again once the
\* flag is set (nothing clears it); before that _len is the 0 of __init__
GraphLen(g, flag) ==
    IF flag THEN Len(CrawlEnd(g, Root, <<>>, <<>>)) ELSE 0

\* GADDAG.starts_with
StartsWith(g, prefix) ==
    LET n == Follow(g, Root, Reverse(prefix))
    IN  IF n = 0 \/ ~HasEdge(g, n, Split) THEN Result(<<>>)
        ELSE Result(Crawl(g, g[n].dst[Split], prefix, NoneYet, TRUE).out)

\* GADDAG.ends_with
EndsWith(g, suffix) ==
    LET start == Follow(g, Root, Reverse(suffix))
    IN  IF start = 0 THEN Result(<<>>)
        ELSE Result(CrawlEnd(g, start, suffix, <<>>))

\* GADDAG.contains_lett
ContainsLett(g, sub, lett) ==
    LET start == Follow(g, Root, Reverse(sub))
    IN  IF start = 0 THEN Result(<<>>)
        ELSE Result(CrawlLett(g, start, sub, lett, 0, NoneYet, FALSE).out)

\* GADDAG.starts_with_lett
StartsWithLett(g, prefix, lett) ==
    LET n == Follow(g, Root, Reverse(prefix))
    IN  IF n = 0 \/ ~HasEdge(g, n, Split) THEN Result(<<>>)
        ELSE Result(CrawlLett(g, g[n].dst[Split], prefix, lett, 0, NoneYet, TRUE).out)

\* GADDAG.ends_with_lett
EndsWithLett(g, suffix, lett) ==
    LET start == Follow(g, Root, Reverse(suffix))
    IN  IF start = 0 THEN Result(<<>>)
        ELSE Result(CrawlEndLett(g, start, suffix, lett, <<>>))

\* GADDAG.contains_lett_patt
ContainsLettPatt(g, sub, lett, patt) ==
    LET start == Follow(g, Root, Reverse(sub))
    IN  IF start = 0 THEN Result(<<>>)
        ELSE Result(CrawlLettPatt(g, start, sub, lett, patt, 0, 0, NoneYet, FALSE).out)

\* the letters find_lett_patt appends to the caller's list
RECURSIVE PatternLetters(_)
PatternLetters(pattern) ==
    IF pattern = <<>> THEN <<>>
    ELSE (IF IsAlpha(Head(pattern)) THEN <<Head(pattern)>> ELSE <<>>)
         \o PatternLetters(Tail(pattern))

\* GADDAG.find_lett_patt: the words found, and the caller's list afterwards
FindLettPatt(g, lett, pattern) ==
    LET all == lett \o PatternLetters(pattern)
    IN  [out |-> CrawlFind(g, Root, <<>>, all, pattern, NoneYet, FALSE).out,
         raised |-> FALSE,
         letters |-> all]

-----------------------------------------------------------------------------
(* The index as a state machine *)

Words == SeqsUpTo(Alphabet, 2, MaxWordLen)
Probes == SeqsUpTo(Alphabet, 1, MaxWordLen + 1)
Subs == SeqsUpTo(Alphabet, 1, MaxSubLen)
Racks == SeqsUpTo(Alphabet \cup {Wild}, 0, MaxRack)
LetterRacks == SeqsUpTo(Alphabet, 0, MaxRack)
Patterns == SeqsUpTo(Alphabet \cup {Dash}, 2, MaxWordLen)
PattDicts == UNION {[d -> Alphabet] : d \in SUBSET (0..(MaxSubLen - 1))}

NoCall == [op |-> "none", arg |-> <<>>, lett |-> <<>>, patt |-> <<>>,
           out |-> <<>>, raised |-> FALSE]

Call(op, arg, lett, patt, res) ==
    [op |-> op, arg |-> arg, lett |-> lett, patt |-> patt,
     out |-> res.out, raised |-> res.raised]

SolverIdle ==
    /\ letters = <<>>
    /\ occurrences = NoEdges
    /\ start_grid = <<>>
    /\ init_grid = <<>>
    /\ singles = <<>>
    /\ even = <<>>
    /\ odd = <<>>
    /\ solutions = <<>>
    /\ solution = <<>>
    /\ stack = <<>>
    /\ pc = "index"
    /\ problem = <<>>
    /\ returned = <<>>

Init ==
    /\ nodes = EmptyGraph
    /\ changed = FALSE
    /\ inserted = {}
    /\ last = NoCall
    /\ SolverIdle

\* GADDAG.add / GADDAG._add_word
AddWord ==
    \E w \in Words :
        /\ last.op \in {"none", "add_word"}
        /\ Cardinality(inserted) < MaxWords \/ w \in inserted
        /\ LET r == AddWordOp(nodes, w)
           IN  /\ nodes' = r.g
               /\ changed' = (changed \/ r.ret = "True")
               /\ inserted' = IF r.ret = "True" THEN inserted \cup {w} ELSE inserted
               /\ last' = [op |-> "add_word", arg |-> w, lett |-> <<>>, patt |-> <<>>,
                           out |-> <<r.ret>>, raised |-> r.ret = "raise"]
        /\ UNCHANGED svars

\* one call is observed at a time: a query is made when no result is held
Query(c) ==
    /\ last.op = "none"
    /\ last' = c
    /\ UNCHANGED <<nodes, changed, inserted>>
    /\ UNCHANGED svars

DoIsIn ==
    \E w \in Probes :
        Query(Call("is_in", w, <<>>, <<>>, Result(<<Has(nodes, w)>>)))
DoContains == \E s \in Subs : Query(Call("contains", s, <<>>, <<>>, ContainsSub(nodes, s)))
DoStartsWith == \E s \in Subs : Query(Call("starts_with", s, <<>>, <<>>, StartsWith(nodes, s)))
DoEndsWith == \E s \in Subs : Query(Call("ends_with", s, <<>>, <<>>, EndsWith(nodes, s)))
DoContainsLett ==
    \E s \in Subs, l \in Racks :
        Query(Call("contains_lett", s, l, <<>>, ContainsLett(nodes, s, l)))
DoStartsWithLett ==
    \E s \in Subs, l \in Racks :
        Query(Call("starts_with_lett", s, l, <<>>, StartsWithLett(nodes, s, l)))
DoEndsWithLett ==
    \E s \in Subs, l \in Racks :
        Query(Call("ends_with_lett", s, l, <<>>, EndsWithLett(nodes, s, l)))
DoContainsLettPatt ==
    \E s \in Subs, l \in Racks, p \in PattDicts :
        Query(Call("contains_lett_patt", s, l, p, ContainsLettPatt(nodes, s, l, p)))
DoFindLettPatt ==
    \E l \in LetterRacks, p \in Patterns :
        Query(Call("find_lett_patt", <<>>, l, p, FindLettPatt(nodes, l, p)))

\* the caller drops the result it holds
Forget ==
    /\ last.op # "none"
    /\ last' = NoCall
    /\ UNCHANGED <<nodes, changed, inserted>>
    /\ UNCHANGED svars

Next ==
    \/ AddWord
    \/ Forget
    \/ DoIsIn
    \/ DoContains
    \/ DoStartsWith
    \/ DoEndsWith
    \/ DoContainsLett
    \/ DoStartsWithLett
    \/ DoEndsWithLett
    \/ DoContainsLettPatt
    \/ DoFindLettPatt

Spec == Init /\ [][Next]_vars

-----------------------------------------------------------------------------
(* The index with words in upper and lower case: nothing in add or in      *)
(* _add_word changes the case of a word, and "word in graph" lowers it     *)

CasedAlphabet == Alphabet \cup {UpperOf[c] : c \in Alphabet}

CasedWords == SeqsUpTo(CasedAlphabet, 2, MaxWordLen)

\* GADDAG.add / GADDAG._add_word, the word as the caller wrote it
AddCased ==
    \E w \in CasedWords :
        /\ last.op \in {"none", "add_word"}
        /\ Cardinality(inserted) < MaxWords \/ w \in inserted
        /\ LET r == AddWordOp(nodes, w)
           IN  /\ nodes' = r.g
               /\ changed' = (changed \/ r.ret = "True")
               /\ inserted' = IF r.ret = "True" THEN inserted \cup {w} ELSE inserted
               /\ last' = [op |-> "add_word", arg |-> w, lett |-> <<>>, patt |-> <<>>,
                           out |-> <<r.ret>>, raised |-> r.ret = "raise"]
        /\ UNCHANGED svars

\* "word in graph": GADDAG.__contains__
DoMember ==
    \E w \in CasedWords :
        Query(Call("in", w, <<>>, <<>>, Result(<<Contains(nodes, w)>>)))

CaseNext ==
    \/ AddCased
    \/ DoMember
    \/ Forget

CaseSpec == Init /\ [][CaseNext]_vars

-----------------------------------------------------------------------------
(* The index built from a list of words: GADDAG(words) and add(words)      *)

\* the lists of words: two words or more
WordLists == SeqsUpTo(Words, 2, MaxWords)

\* GADDAG(words) / GADDAG.add(words) with a list of words
AddList ==
    \E content \in WordLists :
        /\ last.op \in {"none", "add_word"}
        /\ Cardinality(inserted \cup Range(content)) <= MaxWords
        /\ LET r == AddContent(nodes, content)
           IN  /\ nodes' = r.g
               /\ changed' = (changed \/ r.ret = "True")
               /\ inserted' = IF r.ret = "True" THEN inserted \cup Range(content)
                               ELSE inserted
               /\ last' = [op |-> "add_word", arg |-> Flatten(content), lett |-> <<>>,
                           patt |-> <<>>, out |-> <<r.ret>>, raised |-> r.ret = "raise"]
        /\ UNCHANGED svars

\* "word in graph" for a word of the lexicon's alphabet
DoMemberWord ==
    \E w \in Words :
        Query(Call("in", w, <<>>, <<>>, Result(<<Contains(nodes, w)>>)))

ListNext ==
    \/ AddList
    \/ DoMemberWord
    \/ Forget

ListSpec == Init /\ [][ListNext]_vars

-----------------------------------------------------------------------------
(* class Solver.  A grid is a sequence of Size rows of Size characters.    *)
(* Rows, columns and positions count from 0 as in the source; a sequence   *)
(* is indexed from 1, so cell (r, c) of grid is grid[r + 1][c + 1].        *)

Idx == 0..(Size - 1)

Cell(grid, r, c) == grid[r + 1][c + 1]

SetCell(grid, r, c, ch) == [grid EXCEPT ![r + 1][c + 1] = ch]

\* the order list.sort() puts lowercase letters in
CharOrder == <<"a", "b", "c", "d">>

RECURSIVE Copies(_, _)
Copies(ch, n) == IF n = 0 THEN <<>> ELSE <<ch>> \o Copies(ch, n - 1)

RECURSIVE SortedFrom(_, _)
SortedFrom(k, s) ==
    IF k > Len(CharOrder) THEN <<>>
    ELSE Copies(CharOrder[k], Count(CharOrder[k], s)) \o SortedFrom(k + 1, s)

\* self.letters.sort()
SortLetters(s) == SortedFrom(1, s)

\* the keys of self.occurrences in insertion order: the distinct letters of
\* the sorted list
RECURSIVE DistinctFrom(_, _)
DistinctFrom(k, s) ==
    IF k > Len(CharOrder) THEN <<>>
    ELSE (IF IsIn(CharOrder[k], s) THEN <<CharOrder[k]>> ELSE <<>>)
         \o DistinctFrom(k + 1, s)

\* self.occurrences
Occurrences(s) == [ch \in Range(s) |-> Count(ch, s)]

RECURSIVE SelectSeqBy(_, _, _)
SelectSeqBy(s, occ, kind) ==
    IF s = <<>> THEN <<>>
    ELSE LET no == occ[Head(s)]
             in == CASE kind = "singles" -> no = 1
                     [] kind = "odd"     -> no = 1 \/ no % 2 # 0
                     [] kind = "even"    -> no # 1 /\ no % 2 = 0
         IN  (IF in THEN <<Head(s)>> ELSE <<>>) \o SelectSeqBy(Tail(s), occ, kind)

\* the three lists set_problem fills from self.occurrences
Bucket(s, kind) == SelectSeqBy(DistinctFrom(1, s), Occurrences(s), kind)

\* "for let in used_letters: if let in self.letters: self.letters.remove(let)"
RECURSIVE RemoveUsed(_, _)
RemoveUsed(used, lst) ==
    IF used = <<>> THEN lst
    ELSE RemoveUsed(Tail(used),
                    IF IsIn(Head(used), lst) THEN RemoveFirst(Head(used), lst) ELSE lst)

\* the letters of a grid, row by row
UsedLetters(grid) == SelectSeq(Flatten(grid), IsAlpha)

\* Solver.check_diagonal from cell k on (k = Size * row + col): the grid is
\* written before the letter is removed, and a letter that is missing
\* (ValueError) ends the loops with the list cleared
RECURSIVE CheckDiagonalFrom(_, _, _)
CheckDiagonalFrom(k, grid, lst) ==
    IF k >= Size * Size THEN [grid |-> grid, letters |-> lst]
    ELSE LET row == k \div Size
             col == k % Size
         IN  IF IsAlpha(Cell(grid, row, col)) /\ Cell(grid, col, row) = Dash
             THEN LET g2 == SetCell(grid, col, row, Cell(grid, row, col))
                  IN  IF IsIn(Cell(g2, col, row), lst)
                      THEN CheckDiagonalFrom(k + 1, g2, RemoveFirst(Cell(g2, col, row), lst))
                      ELSE [grid |-> g2, letters |-> <<>>]
             ELSE IF IsAlpha(Cell(grid, col, row)) /\ Cell(grid, row, col) = Dash
             THEN LET g2 == SetCell(grid, row, col, Cell(grid, col, row))
                  IN  IF IsIn(Cell(g2, row, col), lst)
                      THEN CheckDiagonalFrom(k + 1, g2, RemoveFirst(Cell(g2, row, col), lst))
                      ELSE [grid |-> g2, letters |-> <<>>]
             ELSE CheckDiagonalFrom(k + 1, grid, lst)

\* check_diagonal that takes a letter from the pool on every call, copied
\* or not
CheckDiagonalTakesOne(grid, lst) ==
    LET r == CheckDiagonalFrom(0, grid, lst)
    IN  [grid |-> r.grid, letters |-> IF r.letters = <<>> THEN <<>> ELSE Tail(r.letters)]

\* check_diagonal whose handler of ValueError leaves the list as it was
CheckDiagonalNoClear(grid, lst) ==
    LET r == CheckDiagonalFrom(0, grid, lst)
    IN  IF r.letters = <<>> THEN [grid |-> r.grid, letters |-> lst] ELSE r

\* Solver.check_diagonal
CheckDiagonal(grid, lst) == CheckDiagonalFrom(0, grid, lst)

\* check_singles that turns no word down
CheckSinglesOff(row, word, sgl) == TRUE

\* Solver.check_singles
CheckSingles(row, word, sgl) ==
    \A pos \in 0..(Len(word) - 1) : ~(IsIn(word[pos + 1], sgl) /\ pos # row)

\* Solver.get_letters from position i on; failed is the ValueError of a
\* remove that finds no such letter
RECURSIVE GetLettersFrom(_, _, _, _, _)
GetLettersFrom(i, word, lst, row, pattern) ==
    IF i >= Size THEN [letters |-> lst, failed |-> FALSE]
    ELSE IF word[i + 1] = pattern[i + 1]
    THEN GetLettersFrom(i + 1, word, lst, row, pattern)
    ELSE IF ~IsIn(word[i + 1], lst) THEN [letters |-> lst, failed |-> TRUE]
    ELSE LET once == RemoveFirst(word[i + 1], lst)
         IN  IF i = row THEN GetLettersFrom(i + 1, word, once, row, pattern)
             ELSE IF ~IsIn(word[i + 1], once) THEN [letters |-> once, failed |-> TRUE]
             ELSE GetLettersFrom(i + 1, word, RemoveFirst(word[i + 1], once), row, pattern)

\* Solver.get_letters
GetLetters(word, lst, row, pattern) == GetLettersFrom(0, word, lst, row, pattern)

\* check_pattern that turns no word down
CheckPatternOff(row, word, lst, pattern) == TRUE

\* Solver.check_pattern
CheckPattern(row, word, lst, pattern) ==
    LET masked  == [i \in 1..Size |-> IF word[i] = pattern[i] THEN Dash ELSE word[i]]
        doubled == masked \o masked
        used    == RemoveFirst(doubled[row + 1], doubled)
    IN  \A i \in 1..Size :
            ~(IsAlpha(used[i]) /\ Count(used[i], used) > Count(used[i], lst))

\* Solver.get_pattern
GetPattern(row, grid) == grid[row + 1]

\* set_word that writes the row and not the column
SetWordRowOnly(word, row, grid) == [grid EXCEPT ![row + 1] = word]

\* Solver.set_word
SetWord(word, row, grid) ==
    [r \in 1..Size |-> [c \in 1..Size |->
        IF r = row + 1 THEN word[c]
        ELSE IF c = row + 1 THEN word[r]
        ELSE grid[r][c]]]

\* Solver.transpose
Transpose(grid) == [c \in 1..Size |-> [r \in 1..Len(grid) |-> grid[r][c]]]

\* Solver.check_muddle
CheckMuddle(muddle) ==
    /\ \A r \in 1..Len(muddle) : ~IsIn(Dash, muddle[r])
    /\ Len(muddle) = Len(Transpose(muddle))
    /\ \A r \in 1..Len(muddle) : IsIn(muddle[r], Transpose(muddle))

\* a head of traverse that resets no cell
ResetNone(row, grid, init) == grid

\* the loops at the head of traverse that put the cells at row and column
\* indices >= row back to init_grid
ResetFrom(row, grid, init) ==
    [r \in 1..Size |-> [c \in 1..Size |->
        IF r - 1 >= row /\ c - 1 >= row THEN init[r][c] ELSE grid[r][c]]]

\* a traverse that hands find_lett_patt its own list: the letters of the
\* pattern are appended to it
PoolAfterFindShared(g, lst, pattern) == FindLettPatt(g, lst, pattern).letters

\* the list `letters` of traverse once the candidates are found:
\* find_lett_patt is given the copy letters[:], and check_singles and
\* check_pattern write to no list of the caller
PoolAfterFind(g, lst, pattern) == lst

\* candidates cut down to the first one
PossiblesFirst(g, row, lst, pattern, sgl) ==
    LET found == FindLettPatt(g, lst, pattern).out
        keep(word) == CheckSingles(row, word, sgl) /\ CheckPattern(row, word, lst, pattern)
        kept == SelectSeq(found, keep)
    IN  IF kept = <<>> THEN <<>> ELSE <<kept[1]>>

\* candidates made from the pool and the pattern without asking the index
PossiblesUnindexed(g, row, lst, pattern, sgl) ==
    LET fill == [i \in 1..Len(pattern) |->
                    IF pattern[i] = Dash /\ lst # <<>> THEN lst[1] ELSE pattern[i]]
        keep(word) == CheckSingles(row, word, sgl) /\ CheckPattern(row, word, lst, pattern)
    IN  SelectSeq(<<fill>>, keep)

\* the candidates of traverse: the words of the index for the pattern, less
\* those check_singles and then check_pattern turn down
Possibles(g, row, lst, pattern, sgl) ==
    LET found == FindLettPatt(g, lst, pattern).out
        keep(word) == CheckSingles(row, word, sgl) /\ CheckPattern(row, word, lst, pattern)
    IN  SelectSeq(found, keep)

-----------------------------------------------------------------------------
(* The Solver as a state machine.  solve() is followed call by call: a     *)
(* frame of traverse is entered (the test of the base case, the reset, the *)
(* candidates), then runs its loop, one candidate and one recursive call   *)
(* at a time, and returns.                                                 *)

\* the five-letter words a lexicon is drawn from
WordPool == << <<"a", "a", "a", "a", "a">>,
               <<"b", "a", "a", "a", "a">>,
               <<"a", "b", "a", "a", "a">>,
               <<"a", "a", "b", "a", "a">> >>

\* a lexicon: the pool less at most MaxLeftOut of its last words
Lexicons == {SubSeq(WordPool, 1, n) : n \in (Len(WordPool) - MaxLeftOut)..Len(WordPool)}

\* the index a lexicon makes: Solver.__init__ loads a graph that add_word built
RECURSIVE BuildGraph(_, _)
BuildGraph(g, words) ==
    IF words = <<>> THEN g
    ELSE BuildGraph(AddWordOp(g, Head(words)).g, Tail(words))

AllA == <<"a", "a", "a", "a", "a">>

\* the letters argument of set_problem: five strings of five letters, with
\* no "b", one "b" and two "b"s
RackNoB == <<AllA, AllA, AllA, AllA, AllA>>

RackOneB == << <<"b", "a", "a", "a", "a">>, AllA, AllA, AllA, AllA >>

RackTwoB == << <<"a", "b", "a", "a", "a">>, <<"b", "a", "a", "a", "a">>, AllA, AllA, AllA >>

\* three "b"s: the letters of the muddle GridSym below, row by row
RackThreeB == << <<"a", "b", "a", "a", "a">>, <<"b", "a", "a", "a", "a">>,
                 <<"a", "a", "b", "a", "a">>, AllA, AllA >>

\* a malformed letters argument: four strings, twenty letters
RackShort == <<AllA, AllA, AllA, AllA>>

RackChoices == {RackNoB, RackOneB, RackTwoB, RackThreeB, RackShort}

\* a muddle: a prefilled grid shows some of its cells
GridSym == << <<"a", "b", "a", "a", "a">>,
              <<"b", "a", "a", "a", "a">>,
              <<"a", "a", "b", "a", "a">>,
              AllA,
              AllA >>

\* a grid of lexicon words that is no muddle: its rows are its columns in
\* another order
GridAsym == << <<"a", "b", "a", "a", "a">>,
               <<"a", "a", "b", "a", "a">>,
               <<"b", "a", "a", "a", "a">>,
               AllA,
               AllA >>

Sources == {GridSym, GridAsym}

Cells == Idx \X Idx

\* the cells a pattern shows: at most MaxPrefilled cells of the rows and
\* columns 0..MaxCorner, or every cell
Masks ==
    {m \in SUBSET ((0..MaxCorner) \X (0..MaxCorner)) : Cardinality(m) <= MaxPrefilled}
    \cup {Cells}

\* the patterns argument of set_problem: a grid with the cells off the mask
\* left as "-"
PatternOf(grid, mask) ==
    [r \in 1..Size |-> [c \in 1..Size |->
        IF <<r - 1, c - 1>> \in mask THEN grid[r][c] ELSE Dash]]

\* a frame of traverse: its arguments row and letters, its locals pattern
\* and possibles, and where it is (entering, or at candidate idx of its loop)
Frame(row, lst) ==
    [row |-> row, letters |-> lst, phase |-> "enter",
     pattern |-> <<>>, possibles |-> <<>>, idx |-> 0]

Top == stack[Len(stack)]

Pop == SubSeq(stack, 1, Len(stack) - 1)

\* the string "ERROR", held as one row of characters so that every item of
\* the list of solutions is made of rows
ErrorString == << <<"E", "R", "R", "O", "R">> >>

\* the unsolvable sentinel of try_grid
ErrorList == <<ErrorString>>

\* Solver.__init__: the graph is loaded, the fields are None
SolverInit ==
    /\ \E lx \in Lexicons :
           /\ nodes = BuildGraph(EmptyGraph, lx)
           /\ inserted = Range(lx)
    /\ changed = TRUE
    /\ last = NoCall
    /\ letters = <<>>
    /\ occurrences = NoEdges
    /\ start_grid = <<>>
    /\ init_grid = <<>>
    /\ singles = <<>>
    /\ even = <<>>
    /\ odd = <<>>
    /\ solutions = <<>>
    /\ solution = <<>>
    /\ stack = <<>>
    /\ pc = "new"
    /\ problem = <<>>
    /\ returned = <<>>

\* Solver.set_problem
SetProblem ==
    \E rack \in RackChoices, src \in Sources, mask \in Masks :
        /\ pc = "new"
        /\ LET patterns == PatternOf(src, mask)
               lst      == SortLetters(Lower(Flatten(rack)))
               grid     == [r \in 1..Len(patterns) |-> Lower(patterns[r])]
           IN  /\ letters' = RemoveUsed(UsedLetters(grid), lst)
               /\ start_grid' = grid
               /\ occurrences' = Occurrences(lst)
               /\ singles' = Bucket(lst, "singles")
               /\ even' = Bucket(lst, "even")
               /\ odd' = Bucket(lst, "odd")
               /\ problem' = [letters |-> rack, patterns |-> patterns]
        /\ pc' = "ready"
        /\ UNCHANGED <<init_grid, solutions, solution, stack, returned>>
        /\ UNCHANGED gvars

\* Solver.solve / Solver.try_grid up to the first call of traverse.
\* check_diagonal copies the list of rows, not the rows: start_grid sees
\* the letters it writes.  solve() may be called again on the same Solver.
Solve ==
    /\ pc = "ready" \/ (pc = "done" /\ Len(returned) < MaxSolves)
    /\ LET cd == CheckDiagonal(start_grid, letters)
       IN  /\ init_grid' = cd.grid
           /\ start_grid' = cd.grid
           /\ letters' = cd.letters
           /\ IF cd.letters = <<>>
              THEN /\ solutions' = ErrorList
                   /\ pc' = "done"
                   /\ returned' = Append(returned, ErrorList)
                   /\ UNCHANGED <<solution, stack>>
              ELSE /\ solutions' = <<>>
                   /\ solution' = cd.grid
                   /\ stack' = <<Frame(0, cd.letters)>>
                   /\ pc' = "run"
                   /\ UNCHANGED returned
    /\ UNCHANGED <<occurrences, singles, even, odd, problem>>
    /\ UNCHANGED gvars

\* Solver.traverse from its first line to the head of its loop: a complete
\* muddle is appended and the call returns; otherwise the cells are reset
\* and the candidates found (row 5 has no pattern: IndexError)
TraverseEnter ==
    /\ pc = "run"
    /\ Top.phase = "enter"
    /\ IF Top.row > 4 /\ CheckMuddle(solution)
       THEN /\ solutions' = Append(solutions, solution)
            /\ stack' = Pop
            /\ pc' = IF Pop = <<>> THEN "done" ELSE "run"
            /\ returned' = IF Pop = <<>> THEN Append(returned, solutions') ELSE returned
            /\ UNCHANGED solution
       ELSE LET reset == ResetFrom(Top.row, solution, init_grid)
            IN  /\ solution' = reset
                /\ UNCHANGED <<solutions, returned>>
                /\ IF Top.row > 4
                   THEN /\ pc' = "raised"
                        /\ UNCHANGED stack
                   ELSE LET pattern == GetPattern(Top.row, reset)
                        IN  /\ stack' = [stack EXCEPT ![Len(stack)] =
                                   [@ EXCEPT !.phase = "loop",
                                             !.pattern = pattern,
                                             !.letters = PoolAfterFind(nodes,
                                                 Top.letters, pattern),
                                             !.possibles = Possibles(nodes, Top.row,
                                                 Top.letters, pattern, singles),
                                             !.idx = 1]]
                            /\ UNCHANGED pc
    /\ UNCHANGED <<letters, occurrences, start_grid, init_grid, singles, even, odd, problem>>
    /\ UNCHANGED gvars

\* a loop of traverse that calls itself without moving to the next
\* candidate
TraverseStepAgain ==
    /\ pc = "run"
    /\ Top.phase = "loop"
    /\ Top.idx <= Len(Top.possibles)
    /\ LET word == Top.possibles[Top.idx]
           base == IF Top.row = 0 THEN init_grid ELSE solution
           new_letters == GetLetters(word, Top.letters, Top.row, Top.pattern)
       IN  /\ solution' = SetWord(word, Top.row, base)
           /\ IF new_letters.failed
              THEN /\ pc' = "raised"
                   /\ UNCHANGED stack
              ELSE /\ stack' = Append(stack, Frame(Top.row + 1, new_letters.letters))
                   /\ UNCHANGED pc
    /\ UNCHANGED <<letters, occurrences, start_grid, init_grid, singles, even, odd,
                   solutions, problem, returned>>
    /\ UNCHANGED gvars

\* one turn of the loop of traverse up to its recursive call (a remove of
\* get_letters that finds no letter: ValueError)
TraverseStep ==
    /\ pc = "run"
    /\ Top.phase = "loop"
    /\ Top.idx <= Len(Top.possibles)
    /\ LET word == Top.possibles[Top.idx]
           base == IF Top.row = 0 THEN init_grid ELSE solution
           new_letters == GetLetters(word, Top.letters, Top.row, Top.pattern)
       IN  /\ solution' = SetWord(word, Top.row, base)
           /\ IF new_letters.failed
              THEN /\ pc' = "raised"
                   /\ UNCHANGED stack
              ELSE /\ stack' = Append([stack EXCEPT ![Len(stack)].idx = @ + 1],
                                      Frame(Top.row + 1, new_letters.letters))
                   /\ UNCHANGED pc
    /\ UNCHANGED <<letters, occurrences, start_grid, init_grid, singles, even, odd,
                   solutions, problem, returned>>
    /\ UNCHANGED gvars

\* the loop of traverse is over: the call returns, and solve with the
\* outermost one
TraverseReturn ==
    /\ pc = "run"
    /\ Top.phase = "loop"
    /\ Top.idx > Len(Top.possibles)
    /\ stack' = Pop
    /\ pc' = IF Pop = <<>> THEN "done" ELSE "run"
    /\ returned' = IF Pop = <<>> THEN Append(returned, solutions) ELSE returned
    /\ UNCHANGED <<letters, occurrences, start_grid, init_grid, singles, even, odd,
                   solutions, solution, problem>>
    /\ UNCHANGED gvars

SolverNext ==
    \/ SetProblem
    \/ Solve
    \/ TraverseEnter
    \/ TraverseStep
    \/ TraverseReturn

SolverSpec == SolverInit /\ [][SolverNext]_vars


-----------------------------------------------------------------------------
(* Loading a snapshot: load, openload and safeload.  A blob is what the    *)
(* file holds: the classes its pickle stream names, and the words of the   *)
(* graph it makes the root of.                                             *)

\* the keys of SafeUnpickler._unpickle_map_safe, as "module.class"
AllowList ==
    {"pygaddag.GADDAG", "pygaddag.Node", "__main__.GADDAG", "__main__.Node",
     "testgaddag.Node"}

\* the classes a pickle stream names, in the order it names them: the
\* Node of a snapshot, with or without a class of the standard library or
\* a class of a module that is not there, and an object that is no Node
ClassLists ==
    { <<"pygaddag.Node">>,
      <<"pygaddag.Node", "collections.OrderedDict">>,
      <<"pygaddag.Node", "nosuch.Thing">>,
      <<"collections.OrderedDict">> }

\* the classes the import system finds
Importable == {"pygaddag.Node", "collections.OrderedDict"}

LoadEntries == {"load", "openload", "safeload"}

\* a snapshot holds no word or one
Blobs ==
    {[classes |-> names, words |-> lx] :
        names \in ClassLists, lx \in SeqsUpTo(Words, 0, 1)}

\* find_class: TRUE when the class is handed back, FALSE when it raises.
\* pickle.loads looks any class up by import; SafeUnpickler.find_class
\* looks it up in its map
FindClass(entry, name) ==
    IF entry = "safeload" THEN name \in AllowList ELSE name \in Importable

\* the three entry points: the root is assigned once the blob is
\* unpickled, and the flag set after that
LoadOp(entry, g, flag, words, blob) ==
    IF \A name \in Range(blob.classes) : FindClass(entry, name)
    THEN [g |-> BuildGraph(EmptyGraph, blob.words), changed |-> TRUE,
          words |-> Range(blob.words), raised |-> FALSE]
    ELSE [g |-> g, changed |-> flag, words |-> words, raised |-> TRUE]

LoadFrom(entry) ==
    \E blob \in Blobs :
        /\ last.op = "none"
        /\ LET r == LoadOp(entry, nodes, changed, inserted, blob)
                names == blob.classes
           IN  /\ nodes' = r.g
               /\ changed' = r.changed
               /\ inserted' = r.words
               /\ last' = [op |-> entry, arg |-> names, lett |-> <<>>, patt |-> <<>>,
                           out |-> <<>>, raised |-> r.raised]
        /\ UNCHANGED svars

\* GADDAG.load
DoLoad == LoadFrom("load")

\* GADDAG.openload
DoOpenLoad == LoadFrom("openload")

\* GADDAG.safeload
DoSafeLoad == LoadFrom("safeload")

LoadNext ==
    \/ AddWord
    \/ DoLoad
    \/ DoOpenLoad
    \/ DoSafeLoad
    \/ Forget

LoadSpec == Init /\ [][LoadNext]_vars

-----------------------------------------------------------------------------
(* Properties of the index (checked under Spec) *)

NoDup(seq) == \A i, j \in 1..Len(seq) : i # j => seq[i] # seq[j]

\* sub occurs in w as a substring
Occurs(sub, w) ==
    \E k \in 0..(Len(w) - Len(sub)) : SubSeq(w, k + 1, k + Len(sub)) = sub

NumOccurs(sub, w) ==
    Cardinality({k \in 0..(Len(w) - Len(sub)) : SubSeq(w, k + 1, k + Len(sub)) = sub})

\* w with the Len(sub) characters after the first k removed
Without(w, k, sub) == SubSeq(w, 1, k) \o SubSeq(w, k + Len(sub) + 1, Len(w))

RECURSIVE ExcessOver(_, _, _)
ExcessOver(S, free, rack) ==
    IF S = {} THEN 0
    ELSE LET x == CHOOSE y \in S : TRUE
             d == Count(x, free) - Count(x, rack)
         IN  (IF d > 0 THEN d ELSE 0) + ExcessOver(S \ {x}, free, rack)

\* the letters of free are supplied by the rack, a wildcard standing for one
\* letter the rack lacks
FitsRack(free, rack) == ExcessOver(Range(free), free, rack) <= Count(Wild, rack)

IsPrefix(u, w) == Len(u) <= Len(w) /\ SubSeq(w, 1, Len(u)) = u

\* C5: after any sequence of add_word calls, membership is true of exactly
\* the words that were inserted (for every probe word, and for the answer
\* of every is_in call).
C5_MembershipRoundTrip ==
    /\ \A w \in Probes : Has(nodes, w) <=> (w \in inserted)
    /\ last.op = "is_in" => (last.out[1] <=> (last.arg \in inserted))

\* a member is looked up that shares its paths with a longer member
C5_Witness ==
    /\ last.op = "is_in"
    /\ last.out[1] = TRUE
    /\ \E w \in inserted : w # last.arg /\ IsPrefix(last.arg, w)

PatternMatches(w, pattern) ==
    /\ Len(w) = Len(pattern)
    /\ \A i \in 1..Len(pattern) : pattern[i] = Dash \/ w[i] = pattern[i]

\* the letters of w at the wildcard positions of pattern, in order
RECURSIVE FreeLetters(_, _)
FreeLetters(w, pattern) ==
    IF w = <<>> \/ pattern = <<>> THEN <<>>
    ELSE (IF Head(pattern) = Dash THEN <<Head(w)>> ELSE <<>>)
         \o FreeLetters(Tail(w), Tail(pattern))

\* C6: find_lett_patt(letters, pattern) yields exactly the lexicon words of
\* the pattern's length that agree with the pattern at its fixed positions
\* and whose letters at the wildcard positions are a sub-multiset of
\* letters, each once.
C6_FindLettPattExact ==
    last.op = "find_lett_patt" =>
        /\ NoDup(last.out)
        /\ Range(last.out) =
               {w \in inserted : /\ PatternMatches(w, last.patt)
                                 /\ SubBag(FreeLetters(w, last.patt), last.lett)}

\* two words are found for a pattern with a fixed and a free position
C6_Witness ==
    /\ last.op = "find_lett_patt"
    /\ Len(last.out) >= 2
    /\ \E i, j \in 1..Len(last.patt) : last.patt[i] = Dash /\ last.patt[j] # Dash

\* C7: contains(s) holds every lexicon word that has s as a substring
\* exactly once, and nothing else.
C7_SubstringComplete ==
    last.op = "contains" =>
        /\ NoDup(last.out)
        /\ Range(last.out) = {w \in inserted : Occurs(last.arg, w)}

\* a word is found in which the substring occurs twice
C7_Witness ==
    /\ last.op = "contains"
    /\ \E i \in 1..Len(last.out) : NumOccurs(last.arg, last.out[i]) >= 2

\* C8: in every result of contains_lett, starts_with_lett and ends_with_lett
\* the letters outside the anchor are supplied by the rack (a ' ' of the
\* rack standing for one letter in the first two).
C8_RackConserved ==
    /\ last.op \in {"contains_lett", "starts_with_lett"} =>
          \A i \in 1..Len(last.out) :
              LET no == last.out[i][1]
                  w  == last.out[i][2]
              IN  /\ no + Len(last.arg) <= Len(w)
                  /\ SubSeq(w, no + 1, no + Len(last.arg)) = last.arg
                  /\ FitsRack(Without(w, no, last.arg), last.lett)
    /\ last.op = "ends_with_lett" =>
          \A i \in 1..Len(last.out) :
              LET w == last.out[i]
                  k == Len(w) - Len(last.arg)
              IN  /\ k >= 0
                  /\ SubSeq(w, k + 1, Len(w)) = last.arg
                  /\ SubBag(SubSeq(w, 1, k), last.lett)

\* a word is found that spends the whole rack, a wildcard included
C8_Witness ==
    /\ last.op = "contains_lett"
    /\ IsIn(Wild, last.lett)
    /\ \E i \in 1..Len(last.out) :
           Len(last.out[i][2]) = Len(last.arg) + Len(last.lett)

\* the letters of w right of the anchor that the pattern did not force:
\* position p counts from 0 at the first letter after the anchor
RECURSIVE Unforced(_, _, _)
Unforced(suffix, patt, p) ==
    IF suffix = <<>> THEN <<>>
    ELSE (IF p \in DOMAIN patt THEN <<>> ELSE <<Head(suffix)>>)
         \o Unforced(Tail(suffix), patt, p + 1)

\* C9: in every result <<k, w>> of contains_lett_patt called with a
\* non-empty rack, the letters of w outside the anchor that the pattern did
\* not force are supplied by the rack.
C9_PattRackConserved ==
    (last.op = "contains_lett_patt" /\ last.lett # <<>>) =>
        \A i \in 1..Len(last.out) :
            LET no == last.out[i][1]
                w  == last.out[i][2]
            IN  FitsRack(SubSeq(w, 1, no)
                            \o Unforced(SubSeq(w, no + Len(last.arg) + 1, Len(w)),
                                        last.patt, 0),
                         last.lett)

\* the path of word w split after its letter i (counted from 0): the
\* letters up to i backwards, the split marker, the letters after i
SplitPath(w, i) ==
    Reverse(SubSeq(w, 1, i + 1)) \o <<Split>> \o SubSeq(w, i + 2, Len(w))

\* the path is in the graph and ends on an end node
PathEnds(g, w, i) ==
    LET n == Follow(g, Root, SplitPath(w, i))
    IN  n # 0 /\ g[n].end

\* C14: after any sequence of insertions, every inserted word has, for
\* every split position, its path from the root ending on an end node; an
\* insertion that points a shared edge at another node breaks no path of an
\* earlier word.
C14_PathsKept ==
    \A w \in inserted : \A i \in 0..(Len(w) - 1) : PathEnds(nodes, w, i)

\* a word has just been inserted whose first letters are an earlier word:
\* the edge to the end node of that word was pointed at a node of the new one
C14_Witness ==
    /\ last.op = "add_word"
    /\ last.out = <<"True">>
    /\ Len(last.arg) > 2
    /\ SubSeq(last.arg, 1, Len(last.arg) - 1) \in inserted
    /\ NodeLen(nodes, Follow(nodes, Root,
                      SplitPath(SubSeq(last.arg, 1, Len(last.arg) - 1), 0))) > 0

\* the queries that start from the node an anchor string leads to
Anchored ==
    {"contains", "starts_with", "ends_with", "contains_lett",
     "starts_with_lett", "ends_with_lett", "contains_lett_patt"}

\* C15: an anchored query whose anchor is no path from the root yields
\* nothing and raises no error when its result is consumed.
C15_MissIsEmpty ==
    (last.op \in Anchored /\ Follow(nodes, Root, Reverse(last.arg)) = 0)
        => (~last.raised /\ last.out = <<>>)

\* C16: inserting a word that is already a member is a no-op: the call
\* returns False, and the graph (the edges and the end flag of every node),
\* the membership of every word and the size reported are what they were
\* before the call.
C16_ReAddIsNoOp ==
    [][(last'.op = "add_word" /\ last' # last /\ last'.arg \in inserted)
           => /\ last'.out = <<"False">>
              /\ ~last'.raised
              /\ nodes' = nodes
              /\ \A w \in Probes : Contains(nodes', w) = Contains(nodes, w)
              /\ GraphLen(nodes', changed') = GraphLen(nodes, changed)]_vars

\* a word that was inserted has been inserted again, the graph holding
\* another word as well
C16_Witness ==
    /\ last.op = "add_word"
    /\ last.out = <<"False">>
    /\ last.arg \in inserted
    /\ Cardinality(inserted) > 1
    /\ GraphLen(nodes, changed) = Cardinality(inserted)

\* C17: words are case-insensitive: once a word is inserted, in whatever
\* mix of cases, looking it up in any case finds it, and the same word in
\* another case is not inserted a second time.
C17_CaseInsensitive ==
    /\ \A w \in inserted : \A v \in CasedWords :
           Lower(v) = Lower(w) => Contains(nodes, v)
    /\ \A w, v \in inserted : Lower(v) = Lower(w) => v = w

\* C30: find_lett_patt leaves the caller's list of letters unchanged: once
\* the call is made and its result consumed, the list holds the elements
\* it held before.
C30_LettersUnchanged ==
    last.op = "find_lett_patt" =>
        FindLettPatt(nodes, last.lett, last.patt).letters = last.lett

\* the words a rack-constrained query for anchor has found
FoundWords ==
    IF last.op = "ends_with_lett"
    THEN Range(last.out)
    ELSE {last.out[i][2] : i \in 1..Len(last.out)}

\* w holds the anchor at a place the query looks at, and the rack supplies
\* its other letters, a ' ' standing for any one letter the rack lacks
WithinReach(w) ==
    \E k \in 0..(Len(w) - Len(last.arg)) :
        /\ SubSeq(w, k + 1, k + Len(last.arg)) = last.arg
        /\ last.op = "starts_with_lett" => k = 0
        /\ last.op = "ends_with_lett" => k = Len(w) - Len(last.arg)
        /\ FitsRack(Without(w, k, last.arg), last.lett)

\* C24: a ' ' of the rack stands for any letter in every rack-constrained
\* query: contains_lett, starts_with_lett and ends_with_lett return every
\* lexicon word whose letters outside the anchor the rack supplies, a word
\* with a letter the rack lacks included when the rack holds a ' ' for it.
C24_WildcardInEveryQuery ==
    last.op \in {"contains_lett", "starts_with_lett", "ends_with_lett"} =>
        \A w \in inserted : WithinReach(w) => w \in FoundWords

\* C22: add_word never re-points an edge without an error: when the node
\* after the split marker already has an edge for the next letter and that
\* edge leads to another node than the one the previous iteration built,
\* the insertion raises; so after an insertion that raised nothing every
\* edge there was leads where it led.
C22_NoSilentRepoint ==
    [][(last'.op = "add_word" /\ ~last'.raised) =>
          \A n \in 1..Len(nodes) : \A ch \in DOMAIN nodes[n].dst :
              nodes'[n].dst[ch] = nodes[n].dst[ch]]_vars

\* C23: building the index from a list of words works word by word:
\* after GADDAG(words) or add(words) with several words, each word of the
\* list is a member of the index.
C23_EachWordOfTheList ==
    \A w \in inserted : Contains(nodes, w)

\* C21: every entry point that loads a snapshot (load, openload,
\* safeload) fails when the blob names a class outside the allow-list, and
\* a load that fails leaves the root graph as it was before the call.
C21_ForeignBlobRejected ==
    [][(last'.op \in LoadEntries /\ ~(Range(last'.arg) \subseteq AllowList))
           => (last'.raised /\ nodes' = nodes)]_vars

-----------------------------------------------------------------------------
(* Properties of the solver (checked under SolverSpec) *)

\* the grids solve() has put in its list
Emitted == IF solutions = ErrorList THEN {} ELSE Range(solutions)

Symmetric(g) == \A r \in Idx, c \in Idx : Cell(g, r, c) = Cell(g, c, r)

NoWildcard(g) == \A r \in Idx, c \in Idx : Cell(g, r, c) # Dash

\* the pattern shows a letter
Prefilled(patterns) == \E r \in Idx, c \in Idx : Cell(patterns, r, c) # Dash

\* how often ch is among the rack letters passed to set_problem
RackCount(ch) == Count(ch, Flatten(problem.letters))

\* C1: every grid in the list solve() returns, the sentinel aside, is
\* symmetric (grid[r][c] = grid[c][r] for all r, c in 0..4) and has no "-"
\* cell.
C1_SymmetricSolutions ==
    \A g \in Emitted : Len(g) = Size /\ Symmetric(g) /\ NoWildcard(g)

\* solve() has returned two grids or more for a pattern that shows a letter
C1_Witness ==
    /\ pc = "done"
    /\ Prefilled(problem.patterns)
    /\ Cardinality(Emitted) >= 2

\* the pattern after diagonal normalization, when no letter runs out
Normalized(patterns) ==
    [r \in 1..Size |-> [c \in 1..Size |->
        IF patterns[r][c] # Dash THEN patterns[r][c] ELSE patterns[c][r]]]

HasEmptyCell(patterns) == ~NoWildcard(Normalized(patterns))

Agrees(g, patterns) ==
    \A r \in Idx, c \in Idx :
        Cell(patterns, r, c) # Dash => Cell(g, r, c) = Cell(patterns, r, c)

\* g uses exactly the rack's letters
UsesRack(g) ==
    \A ch \in Range(Flatten(g)) \cup Range(Flatten(problem.letters)) :
        Count(ch, Flatten(g)) = RackCount(ch)

\* the grids solve() has to find: symmetric, every row a word of the
\* lexicon, agreeing with the normalized pattern, using exactly the rack
Completions ==
    {g \in [1..Size -> inserted] :
        /\ Symmetric(g)
        /\ Agrees(g, Normalized(problem.patterns))
        /\ UsesRack(g)}

\* C2: solve() is exhaustive: when the normalized pattern still has an
\* empty cell, every symmetric grid of lexicon rows that agrees with the
\* normalized pattern and uses exactly the rack is in the returned list.
C2_Exhaustive ==
    (pc = "done" /\ HasEmptyCell(problem.patterns))
        => \A g \in Completions : IsIn(g, solutions)

\* solve() has returned, for a pattern that shows a letter, and there were
\* two grids or more to find
C2_Witness ==
    /\ pc = "done"
    /\ HasEmptyCell(problem.patterns)
    /\ Prefilled(problem.patterns)
    /\ Cardinality(Completions) >= 2
    /\ \A g \in Completions : IsIn(g, solutions)

\* C3: every emitted grid uses each letter at most as often as it is among
\* the 25 rack letters passed to set_problem, whatever the pattern.
C3_WithinRack ==
    \A g \in Emitted : \A ch \in Range(Flatten(g)) : Count(ch, Flatten(g)) <= RackCount(ch)

\* C4: no emitted grid has a letter that is exactly once among the rack
\* letters in a cell off the main diagonal.
C4_SinglesOnDiagonal ==
    \A g \in Emitted : \A r \in Idx, c \in Idx :
        (r # c) => RackCount(Cell(g, r, c)) # 1

\* a grid is emitted that has the rack's one "b", on the diagonal
C4_Witness ==
    /\ pc = "done"
    /\ \E g \in Emitted : \E r \in Idx : RackCount(Cell(g, r, r)) = 1

\* normalization from cell k on, with the pool lst, comes to a cell it has
\* to copy a letter into while the pool holds no such letter
RECURSIVE RunsOut(_, _, _)
RunsOut(k, grid, lst) ==
    IF k >= Size * Size THEN FALSE
    ELSE LET row == k \div Size
             col == k % Size
             here == Cell(grid, row, col)
             there == Cell(grid, col, row)
         IN  IF here # Dash /\ there = Dash
             THEN ~IsIn(here, lst)
                  \/ RunsOut(k + 1, SetCell(grid, col, row, here), RemoveFirst(here, lst))
             ELSE IF there # Dash /\ here = Dash
             THEN ~IsIn(there, lst)
                  \/ RunsOut(k + 1, SetCell(grid, row, col, there), RemoveFirst(there, lst))
             ELSE RunsOut(k + 1, grid, lst)

\* the pool set_problem leaves: the rack less the letters the pattern shows
PoolOf(rack, patterns) == RemoveUsed(Flatten(patterns), Flatten(rack))

NormalizationFails == RunsOut(0, problem.patterns, PoolOf(problem.letters, problem.patterns))

\* C10: when normalization has to copy a letter into an empty mirrored cell
\* and the pool holds no such letter, solve() returns ["ERROR"]: it does
\* not return another list and no exception escapes.
C10_SentinelOnExhaustion ==
    (pc \in {"run", "done", "raised"} /\ NormalizationFails)
        => (pc = "done" /\ solutions = ErrorList)

\* solve() has returned for a problem whose normalization ran out of a letter
C10_Witness ==
    /\ pc = "done"
    /\ NormalizationFails
    /\ solutions = ErrorList

\* the pattern shows every cell of a muddle of lexicon words that uses
\* exactly the rack
FullyResolved ==
    /\ NoWildcard(problem.patterns)
    /\ Symmetric(problem.patterns)
    /\ \A r \in 1..Size : problem.patterns[r] \in inserted
    /\ UsesRack(problem.patterns)

\* C11: when the pattern is fully resolved, symmetric, made of lexicon
\* words and uses exactly the 25 rack letters, solve() returns the list
\* that holds that one grid, unchanged.
C11_ResolvedPatternReturned ==
    (pc = "done" /\ FullyResolved) => solutions = <<problem.patterns>>

\* C12: solve() returns the sentinel only when normalization had to remove
\* a letter the pool did not hold; when normalization succeeds the result
\* is the list of grids of the search.
C12_SentinelOnlyOnExhaustion ==
    (pc = "done" /\ solutions = ErrorList) => NormalizationFails

\* how often ch is among the rack letters, as set_problem counts them
Frequency(ch) == Count(ch, Lower(Flatten(problem.letters)))

RackLetters == Range(Lower(Flatten(problem.letters)))

\* C19: after set_problem the three buckets partition the distinct rack
\* letters: singles has the letters of frequency 1, even those of even
\* frequency above 1, odd those of odd frequency above 1, and no letter is
\* in two of them.
C19_BucketsPartition ==
    pc # "new" =>
        /\ Range(singles) = {ch \in RackLetters : Frequency(ch) = 1}
        /\ Range(even) = {ch \in RackLetters : Frequency(ch) > 1 /\ Frequency(ch) % 2 = 0}
        /\ Range(odd) = {ch \in RackLetters : Frequency(ch) > 1 /\ Frequency(ch) % 2 = 1}
        /\ Range(singles) \cap Range(even) = {}
        /\ Range(singles) \cap Range(odd) = {}
        /\ Range(even) \cap Range(odd) = {}

\* the letters or the patterns are not five rows of five
Malformed ==
    \/ Len(problem.letters) # Size
    \/ \E r \in 1..Len(problem.letters) : Len(problem.letters[r]) # Size
    \/ Len(problem.patterns) # Size
    \/ \E r \in 1..Len(problem.patterns) : Len(problem.patterns[r]) # Size

\* C20: a problem whose letters or patterns are not 5 x 5 is rejected
\* before the search begins: traverse is never entered (no candidate query
\* is made) and no exception escapes.
C20_MalformedRejected ==
    (pc # "new" /\ Malformed) => (pc \in {"ready", "done"} /\ stack = <<>>)

\* C13: solves with the same lexicon, rack and pattern return the same set
\* of grids: every solve() called on a Solver after one set_problem returns
\* the set the first one returned, although the first has normalized the
\* stored grid and reduced the stored pool in place.
C13_SameSetAgain ==
    \A i \in 1..Len(returned), j \in 1..Len(returned) :
        Range(returned[i]) = Range(returned[j])

\* solve() has returned grids twice for a pattern the first call had to
\* normalize
C13_Witness ==
    /\ Len(returned) >= 2
    /\ start_grid # problem.patterns
    /\ returned[1] # <<>>
    /\ returned[1] # ErrorList

\* the work left in one call of traverse: a call that has not found its
\* candidates yet ranks above every call that has, and a call in its loop
\* ranks by the candidates it has still to try
FrameRank(f) ==
    IF f.phase = "enter"
    THEN <<1, 0>>
    ELSE <<0, Len(f.possibles) - f.idx + 2>>

\* the work left in the calls of traverse, outermost first; a call that
\* is not on the stack has none
Rank ==
    Flatten([d \in 1..(Size + 1) |->
                IF d <= Len(stack) THEN FrameRank(stack[d]) ELSE <<0, 0>>])

\* a comes before b in the lexicographic order of sequences of one length
LexLess(a, b) ==
    \E k \in 1..Len(a) :
        /\ a[k] < b[k]
        /\ \A j \in 1..(k - 1) : a[j] = b[j]

\* a call of traverse is on the stack and it is at a point from which the
\* code goes on: its first line, or the head of its loop
CanStep ==
    /\ stack # <<>>
    /\ Top.phase \in {"enter", "loop"}
    /\ Top.phase = "loop" => Top.idx \in 1..(Len(Top.possibles) + 1)

\* C18: every solve() terminates: traverse has at most one frame per row
\* and one for the base case, a running solve() always has a next step, and
\* every step of it leaves strictly less work in the lexicographic order of
\* the frames (each frame goes through a finite list of candidates), so no
\* run of solve() goes on for ever.
C18_SolveTerminates ==
    /\ [](Len(stack) <= Size + 1)
    /\ [](pc = "run" => CanStep)
    /\ [][(pc = "run" /\ pc' = "run") => LexLess(Rank', Rank)]_vars

\* traverse is at its deepest: five rows are set and the base case is
\* entered
C18_Witness ==
    /\ pc = "run"
    /\ Len(stack) = Size + 1
    /\ Top.row = Size


\* C29: every row of every grid solve() emits is a word of the lexicon
\* (and so is every column, the grid being symmetric).
C29_RowsAreWords ==
    \A g \in Emitted : \A r \in 1..Len(g) :
        /\ g[r] \in inserted
        /\ [c \in 1..Len(g) |-> g[c][r]] \in inserted

\* solve() has returned a grid for a pattern that shows a letter, with a
\* lexicon that lacks a word of the pool
C29_Witness ==
    /\ pc = "done"
    /\ Emitted # {}
    /\ Prefilled(problem.patterns)
    /\ Range(WordPool) \ inserted # {}


\* C28: every grid solve() emits agrees with the pattern passed to
\* set_problem at every cell the pattern shows a letter in, also when the
\* cells (r, c) and (c, r) show different letters.
C28_KeepsPrefilled ==
    \A g \in Emitted : Agrees(g, problem.patterns)


\* traverse has just read the pattern of its row: the frame on top is at
\* the head of its loop and has tried no candidate
AtPatternRead == pc = "run" /\ Top.phase = "loop" /\ Top.idx = 1

\* traverse has just been called for the row after the last
AtBaseCase == pc = "run" /\ Top.phase = "enter" /\ Top.row = Size

\* C25: each time traverse reads the pattern of row r (0 <= r <= 4), every
\* row i < r of the working grid has no "-" and equals column i, and every
\* cell with both indices >= r is that of the normalized initial pattern;
\* and when traverse is entered with row 5 the grid is complete and
\* symmetric, so that the pattern of row 5 is never read.
C25_GridInvariant ==
    /\ AtPatternRead =>
           /\ Top.row \in Idx
           /\ Top.pattern = solution[Top.row + 1]
           /\ \A i \in Idx : i < Top.row =>
                  /\ ~IsIn(Dash, solution[i + 1])
                  /\ \A c \in Idx : Cell(solution, i, c) = Cell(solution, c, i)
           /\ \A r \in Idx, c \in Idx : (r >= Top.row /\ c >= Top.row) =>
                  Cell(solution, r, c) = Cell(init_grid, r, c)
    /\ AtBaseCase => (NoWildcard(solution) /\ Symmetric(solution))
    /\ (pc = "run" /\ Top.phase = "loop") => Top.row < Size

\* the pattern of the last row is read in a search that has gone back to
\* an earlier row before, for a pattern that shows a letter
C25_Witness ==
    /\ AtPatternRead
    /\ Top.row = Size - 1
    /\ Prefilled(problem.patterns)
    /\ \E d \in 1..(Len(stack) - 1) : stack[d].idx > 2
    /\ \E c \in Idx : Cell(init_grid, Size - 1, c) = Dash


\* how many copies of ch get_letters has to remove for word at row: one for
\* a free cell on the diagonal, two for every other free cell
Needed(ch, word, row, pattern) ==
    LET free == {i \in 1..Size : word[i] # pattern[i] /\ word[i] = ch}
    IN  2 * Cardinality(free) - (IF (row + 1) \in free THEN 1 ELSE 0)

\* C26: the pool never goes negative: for every candidate that is left
\* after check_singles and check_pattern at a row, the pool holds every
\* copy get_letters removes (one for a free diagonal cell, two for every
\* other free cell), so get_letters never fails (no ValueError escapes).
C26_PoolNeverNegative ==
    /\ pc # "raised"
    /\ (pc = "run" /\ Top.phase = "loop") =>
           \A k \in 1..Len(Top.possibles) :
               LET word == Top.possibles[k]
                   new_letters == GetLetters(word, Top.letters, Top.row, Top.pattern)
               IN  /\ ~new_letters.failed
                   /\ \A ch \in Range(word) \cup Range(Top.letters) :
                          /\ Needed(ch, word, Top.row, Top.pattern) <= Count(ch, Top.letters)
                          /\ Count(ch, new_letters.letters) =
                                 Count(ch, Top.letters) - Needed(ch, word, Top.row, Top.pattern)

\* a candidate off the first row takes the last copies of a letter: two
\* of them, and the pool is left without that letter
C26_Witness ==
    /\ pc = "run"
    /\ Top.phase = "loop"
    /\ Top.row > 0
    /\ \E k \in 1..Len(Top.possibles) : \E ch \in Range(Top.letters) :
           /\ Needed(ch, Top.possibles[k], Top.row, Top.pattern) = 2
           /\ Count(ch, Top.letters) = 2


\* C27: traverse never modifies the pool it was passed: a call that stays
\* on the stack has after every step the pool, and once they are set the
\* pattern and the candidates, it had before (so the pool after a recursive
\* call returns is the pool before it), and the candidates of a row are
\* those its one pool and one pattern give.
C27_PoolUntouched ==
    /\ []((pc = "run" /\ Top.phase = "loop") =>
              Top.possibles = Possibles(nodes, Top.row, Top.letters, Top.pattern, singles))
    /\ [][(pc = "run" /\ pc' = "run") =>
              \A d \in 1..Len(stack) : d <= Len(stack') =>
                  /\ stack'[d].row = stack[d].row
                  /\ stack'[d].letters = stack[d].letters
                  /\ stack[d].phase = "loop" =>
                         /\ stack'[d].pattern = stack[d].pattern
                         /\ stack'[d].possibles = stack[d].possibles]_vars

\* a call whose pattern shows a letter has had a recursive call return and
\* has made the next one, for its second candidate or a later one
C27_Witness ==
    /\ pc = "run"
    /\ Len(stack) >= 2
    /\ Top.phase = "enter"
    /\ stack[Len(stack) - 1].idx > 2
    /\ \E i \in 1..Size : stack[Len(stack) - 1].pattern[i] # Dash
    /\ Len(Top.letters) < Len(stack[Len(stack) - 1].letters)

====
